---- MODULE Spec2Model ----
(***************************************************************************)
(* Model of scripts/build_developer_ratios.py: the streaming TableParser,  *)
(* the ratio-table selector parse_ratios_from_html, the retrying           *)
(* fetch_html and the per-ticker loop of main().                           *)
(*                                                                         *)
(* Strings are TLA+ strings handled character by character (Len, SubSeq,   *)
(* \o), so that the text conversions are computed as the code computes     *)
(* them.  Python lists are objects: the parser keeps references to rows    *)
(* and tables it has already committed, so rows and tables live in a heap  *)
(* (rowObjs, tableObjs) and the fields hold indices into it.               *)
(***************************************************************************)
EXTENDS Integers, Sequences, FiniteSets, TLC

VARIABLES
    parser,     \* the TableParser object (SpecParser)
    event,      \* the event the parser handled last (SpecParser)
    tablesIn,   \* the tables of the document given to the selector (SpecSelect)
    parseOut,   \* outcome of parse_ratios_from_html (SpecSelect)
    retries,    \* fetch_html: the retries argument
    attempt,    \* fetch_html: the loop variable
    last_err,   \* fetch_html: the local last_err
    calls,      \* fetch_html: the urlopen and time.sleep calls made, in order
    fetchRes,   \* fetch_html: how the call ended
    pc,         \* position of main() / fetch_html
    rows,       \* main: the roster
    idx,        \* main: number of the row being processed
    record,     \* main: the record of the current row
    html,       \* main: the fetched document of the current row
    parsed,     \* main: the parse result of the current row
    out,        \* main: out['developers']
    files       \* the files written, in order

vars == <<parser, event, tablesIn, parseOut, retries, attempt, last_err,
          calls, fetchRes, pc, rows, idx, record, html, parsed, out, files>>

parserVars == <<parser, event>>
selectVars == <<tablesIn, parseOut>>
fetchVars  == <<retries, attempt, last_err, calls, fetchRes>>
mainVars   == <<rows, idx, record, html, parsed, out, files>>

None    == "<None>"          \* Python's None where the other values are strings
NoneObj == [none |-> TRUE]   \* Python's None where the other values are records

-----------------------------------------------------------------------------
(* Bounds                                                                  *)

MaxTableObjs == 2   \* <table> start tags handled by one parser
MaxRowObjs   == 2   \* <tr> start tags accepted by one parser
MaxCells     == 2   \* cells committed by one parser
MaxChunks    == 1   \* text chunks accumulated in one cell
MaxTables    == 3   \* tables of a document given to the selector
MaxCols      == 2   \* cells after the first in a generated row
MaxRetries   == 3   \* largest retries argument given to fetch_html alone
MaxRoster    == 3   \* rows of the roster

-----------------------------------------------------------------------------
(* Strings                                                                 *)

Char(s, i) == SubSeq(s, i, i)

IsSpace(c) == c \in {" ", "\t", "\n", "\r"}

UpperLetters == "ABCDEFGHIJKLMNOPQRSTUVWXYZ"
LowerLetters == "abcdefghijklmnopqrstuvwxyz"
Digits       == "0123456789"

CharsOf(s) == {Char(s, i) : i \in 1..Len(s)}

UpperSet == CharsOf(UpperLetters)
DigitSet == CharsOf(Digits)
AlnumSet == UpperSet \cup CharsOf(LowerLetters) \cup DigitSet

\* str.lower() of one character
LowerMap ==
    [c \in UpperSet |->
        Char(LowerLetters, CHOOSE i \in 1..Len(UpperLetters) : Char(UpperLetters, i) = c)]

LowerChar(c) == IF c \in UpperSet THEN LowerMap[c] ELSE c

UpperMap ==
    [c \in CharsOf(LowerLetters) |->
        Char(UpperLetters, CHOOSE i \in 1..Len(LowerLetters) : Char(LowerLetters, i) = c)]

UpperChar(c) == IF c \in DOMAIN UpperMap THEN UpperMap[c] ELSE c

RECURSIVE Upper(_)
\* str.upper()
Upper(s) == IF s = "" THEN "" ELSE UpperChar(Char(s, 1)) \o Upper(SubSeq(s, 2, Len(s)))

RECURSIVE Lower(_)
\* str.lower()
Lower(s) == IF s = "" THEN "" ELSE LowerChar(Char(s, 1)) \o Lower(SubSeq(s, 2, Len(s)))

RECURSIVE LStrip(_)
LStrip(s) ==
    IF s # "" /\ IsSpace(Char(s, 1)) THEN LStrip(SubSeq(s, 2, Len(s))) ELSE s

RECURSIVE RStrip(_)
RStrip(s) ==
    IF s # "" /\ IsSpace(Char(s, Len(s))) THEN RStrip(SubSeq(s, 1, Len(s) - 1)) ELSE s

\* str.strip()
Strip(s) == RStrip(LStrip(s))

RECURSIVE CollapseSpaces(_)
\* re.sub(r'\s+', ' ', s)
CollapseSpaces(s) ==
    IF s = "" THEN ""
    ELSE IF IsSpace(Char(s, 1))
         THEN " " \o CollapseSpaces(LStrip(s))
         ELSE Char(s, 1) \o CollapseSpaces(SubSeq(s, 2, Len(s)))

RECURSIVE Join(_)
\* ''.join(chunks)
Join(chunks) == IF chunks = <<>> THEN "" ELSE Head(chunks) \o Join(Tail(chunks))

StartsWith(s, p) == Len(s) >= Len(p) /\ SubSeq(s, 1, Len(p)) = p

EndsWith(s, p) == Len(s) >= Len(p) /\ SubSeq(s, Len(s) - Len(p) + 1, Len(s)) = p

\* p in s
Contains(s, p) == \E i \in 1..(Len(s) - Len(p) + 1) : SubSeq(s, i, i + Len(p) - 1) = p

-----------------------------------------------------------------------------
(* TableParser                                                             *)

\* TableParser.__init__: the three lists are fresh objects
TableParserInit ==
    [tables     |-> <<>>,
     in_table   |-> FALSE,
     in_row     |-> FALSE,
     in_cell    |-> FALSE,
     curr_table |-> 1,
     curr_row   |-> 1,
     curr_cell  |-> <<>>,
     tableObjs  |-> << <<>> >>,
     rowObjs    |-> << <<>> >>]

handle_starttag(p, tag) ==
    LET t == Lower(tag) IN
    IF t = "table"
    THEN [p EXCEPT !.in_table = TRUE,
                   !.tableObjs = Append(@, <<>>),
                   !.curr_table = Len(p.tableObjs) + 1]
    ELSE IF p.in_table /\ t = "tr"
    THEN [p EXCEPT !.in_row = TRUE,
                   !.rowObjs = Append(@, <<>>),
                   !.curr_row = Len(p.rowObjs) + 1]
    ELSE IF p.in_row /\ t \in {"th", "td"}
    THEN [p EXCEPT !.in_cell = TRUE, !.curr_cell = <<>>]
    ELSE p

handle_data(p, data) ==
    IF p.in_cell THEN [p EXCEPT !.curr_cell = Append(@, data)] ELSE p

\* handle_endtag without the "if self.curr_row" test: an empty row is committed
handle_endtag_EmptyRow(p, tag) ==
    LET t == Lower(tag) IN
    IF t \in {"th", "td"} /\ p.in_cell
    THEN LET cell == Strip(CollapseSpaces(Join(p.curr_cell))) IN
         [p EXCEPT !.rowObjs[p.curr_row] = Append(@, cell),
                   !.in_cell = FALSE]
    ELSE IF t = "tr" /\ p.in_row
    THEN [p EXCEPT !.tableObjs[p.curr_table] = Append(@, p.curr_row),
                   !.in_row = FALSE]
    ELSE IF t = "table" /\ p.in_table
    THEN [p EXCEPT !.tables =
                       IF p.tableObjs[p.curr_table] # <<>>
                       THEN Append(@, p.curr_table) ELSE @,
                   !.in_table = FALSE]
    ELSE p

handle_endtag(p, tag) ==
    LET t == Lower(tag) IN
    IF t \in {"th", "td"} /\ p.in_cell
    THEN LET cell == Strip(CollapseSpaces(Join(p.curr_cell))) IN
         [p EXCEPT !.rowObjs[p.curr_row] = Append(@, cell),
                   !.in_cell = FALSE]
    ELSE IF t = "tr" /\ p.in_row
    THEN [p EXCEPT !.tableObjs[p.curr_table] =
                       IF p.rowObjs[p.curr_row] # <<>>
                       THEN Append(@, p.curr_row) ELSE @,
                   !.in_row = FALSE]
    ELSE IF t = "table" /\ p.in_table
    THEN [p EXCEPT !.tables =
                       IF p.tableObjs[p.curr_table] # <<>>
                       THEN Append(@, p.curr_table) ELSE @,
                   !.in_table = FALSE]
    ELSE p

\* parser.tables as a value: a list of tables, each a list of rows of cells
TablesOf(p) ==
    [i \in 1..Len(p.tables) |->
        [j \in 1..Len(p.tableObjs[p.tables[i]]) |->
            p.rowObjs[p.tableObjs[p.tables[i]][j]]]]

\* One event of the markup tokenizer
StartEv(tag) == [type |-> "start", arg |-> tag]
EndEv(tag)   == [type |-> "end", arg |-> tag]
DataEv(data) == [type |-> "data", arg |-> data]

Handle(p, ev) ==
    CASE ev.type = "start" -> handle_starttag(p, ev.arg)
      [] ev.type = "end"   -> handle_endtag(p, ev.arg)
      [] OTHER             -> handle_data(p, ev.arg)

RECURSIVE FeedRange(_, _, _, _)
\* The parser after handling events[lo..hi] in order, starting from p.  The
\* range is halved, and the first half is evaluated (as the element of a
\* set) before the second half starts, so that the evaluation stays shallow.
FeedRange(p, events, lo, hi) ==
    IF lo > hi THEN p
    ELSE IF lo = hi THEN Handle(p, events[lo])
    ELSE CHOOSE r \in {FeedRange(q, events, (lo + hi) \div 2 + 1, hi) :
                          q \in {FeedRange(p, events, lo, (lo + hi) \div 2)}} : TRUE

\* parser = TableParser(); parser.feed(html)
Feed(events) == FeedRange(TableParserInit, events, 1, Len(events))

-----------------------------------------------------------------------------
(* SpecParser: a TableParser fed an arbitrary sequence of events           *)

\* th and td are handled alike; p stands for any other tag
Tags   == {"table", "tr", "td", "p"}
Chunks == {" a  a "}

NoEvent == [type |-> "none", arg |-> "", open |-> FALSE]

\* The flag a tag opens and closes (no flag for any other tag)
OpenFlag(p, tag) ==
    CASE Lower(tag) \in {"th", "td"} -> p.in_cell
      [] Lower(tag) = "tr"           -> p.in_row
      [] Lower(tag) = "table"        -> p.in_table
      [] OTHER                       -> FALSE

RECURSIVE CellCount(_)
CellCount(rowObjs) ==
    IF rowObjs = <<>> THEN 0 ELSE Len(Head(rowObjs)) + CellCount(Tail(rowObjs))

\* The model stops allocating at the bounds
WithinBounds(p) ==
    /\ Len(p.tableObjs) <= MaxTableObjs + 1
    /\ Len(p.rowObjs) <= MaxRowObjs + 1
    /\ CellCount(p.rowObjs) <= MaxCells
    /\ Len(p.curr_cell) <= MaxChunks

StartTag ==
    \E tag \in Tags :
        /\ WithinBounds(handle_starttag(parser, tag))
        /\ parser' = handle_starttag(parser, tag)
        /\ event' = [type |-> "start", arg |-> tag, open |-> OpenFlag(parser, tag)]

EndTag ==
    \E tag \in Tags :
        /\ WithinBounds(handle_endtag(parser, tag))
        /\ parser' = handle_endtag(parser, tag)
        /\ event' = [type |-> "end", arg |-> tag, open |-> OpenFlag(parser, tag)]

Data ==
    \E data \in Chunks :
        /\ WithinBounds(handle_data(parser, data))
        /\ parser' = handle_data(parser, data)
        /\ event' = [type |-> "data", arg |-> data, open |-> parser.in_cell]

\* The parts of the state a specification does not use
IdleParser == parser = TableParserInit /\ event = NoEvent
IdleSelect == tablesIn = <<>> /\ parseOut = NoneObj
IdleFetch  ==
    /\ retries = 0 /\ attempt = 0 /\ last_err = NoneObj
    /\ calls = <<>> /\ fetchRes = NoneObj
IdleMain   ==
    /\ rows = <<>> /\ idx = 0 /\ record = NoneObj /\ html = None
    /\ parsed = NoneObj /\ out = <<>> /\ files = <<>>

InitParser ==
    /\ parser = TableParserInit /\ event = NoEvent
    /\ pc = "parser"
    /\ IdleSelect /\ IdleFetch /\ IdleMain

NextParser ==
    \/ StartTag /\ UNCHANGED <<selectVars, fetchVars, mainVars, pc>>
    \/ EndTag /\ UNCHANGED <<selectVars, fetchVars, mainVars, pc>>
    \/ Data /\ UNCHANGED <<selectVars, fetchVars, mainVars, pc>>

SpecParser == InitParser /\ [][NextParser]_vars

\* Every committed table has a row and every committed row has a cell
CommittedNonEmpty ==
    \A i \in 1..Len(TablesOf(parser)) :
        /\ TablesOf(parser)[i] # <<>>
        /\ \A j \in 1..Len(TablesOf(parser)[i]) : TablesOf(parser)[i][j] # <<>>

\* The lists the parser has built, as values
Built(p) == <<p.tables, p.tableObjs, p.rowObjs>>

\* C7: whatever events a TableParser is fed, every table of its output
\* list has at least one row and every row at least one cell, and a
\* closing tag that arrives while its flag is false leaves the output list,
\* every table and every row as they were.
C7_CommittedNonEmpty ==
    /\ []CommittedNonEmpty
    /\ [][(event'.type = "end" /\ ~event'.open) => Built(parser') = Built(parser)]_vars

\* A table was committed and an unmatched closing tag was then ignored
C7_Witness ==
    /\ event.type = "end" /\ ~event.open
    /\ event.arg \in {"table", "tr", "td", "th"}
    /\ Len(parser.tables) > 0

\* C10: the flags are nested: in_cell implies in_row, in_row implies
\* in_table, so that no text is taken into a cell outside a table.
C10_NestedFlags ==
    /\ parser.in_cell => parser.in_row
    /\ parser.in_row => parser.in_table
    /\ (event.type = "data" /\ ~parser.in_table) => ~event.open

-----------------------------------------------------------------------------
(* Text conversions of the selector                                        *)

\* Python dicts are functions with a finite domain
EmptyDict == <<>>

DictSet(d, k, v) == [x \in (DOMAIN d) \cup {k} |-> IF x = k THEN v ELSE d[x]]

DictGet(d, k) == IF k \in DOMAIN d THEN d[k] ELSE None

\* MISSING_RE = ^(?:-|--|n/?a|na|none|null)?$ with re.I, on a stripped text
MISSING_RE(t) == Lower(t) \in {"", "-", "--", "na", "n/a", "none", "null"}

RECURSIVE RemoveChars(_, _)
\* s with every character of the set cs removed
RemoveChars(s, cs) ==
    IF s = "" THEN ""
    ELSE (IF Char(s, 1) \in cs THEN "" ELSE Char(s, 1))
             \o RemoveChars(SubSeq(s, 2, Len(s)), cs)

RECURSIVE LStripChars(_, _)
LStripChars(s, cs) ==
    IF s # "" /\ Char(s, 1) \in cs THEN LStripChars(SubSeq(s, 2, Len(s)), cs) ELSE s

RECURSIVE RStripChars(_, _)
RStripChars(s, cs) ==
    IF s # "" /\ Char(s, Len(s)) \in cs
    THEN RStripChars(SubSeq(s, 1, Len(s) - 1), cs) ELSE s

AllIn(s, cs) == \A i \in 1..Len(s) : Char(s, i) \in cs

\* float(s) on the decimal forms [+-]digits[.digits], surrounding white
\* space allowed; a float is held as its repr ("1234.5", "3.0", "-0.5").
\* The exponent, underscore, inf and nan forms do not occur in the model's
\* cell texts, nor magnitudes that repr prints with an exponent.
ParseFloat(s0) ==
    LET s      == Strip(s0)
        signed == s # "" /\ Char(s, 1) \in {"+", "-"}
        body   == IF signed THEN SubSeq(s, 2, Len(s)) ELSE s
        dots   == {i \in 1..Len(body) : Char(body, i) = "."}
        int0   == IF dots = {} THEN body
                  ELSE SubSeq(body, 1, (CHOOSE i \in dots : TRUE) - 1)
        frac0  == IF dots = {} THEN ""
                  ELSE SubSeq(body, (CHOOSE i \in dots : TRUE) + 1, Len(body))
        int    == LStripChars(int0, {"0"})
        frac   == RStripChars(frac0, {"0"})
    IN  IF /\ Cardinality(dots) <= 1
           /\ AllIn(int0, DigitSet) /\ AllIn(frac0, DigitSet)
           /\ int0 \o frac0 # ""
        THEN (IF signed /\ Char(s, 1) = "-" THEN "-" ELSE "")
                 \o (IF int = "" THEN "0" ELSE int) \o "."
                 \o (IF frac = "" THEN "0" ELSE frac)
        ELSE None

parse_numeric(raw) ==
    IF raw = None THEN None
    ELSE LET t == Strip(raw) IN
         IF t = "" \/ MISSING_RE(t) THEN None
         ELSE LET cleaned0 == RemoveChars(t, {",", " "})
                  cleaned1 == LStripChars(cleaned0,
                                  UpperSet \cup CharsOf(LowerLetters) \cup {"$"})
                  cleaned  == RStripChars(cleaned1, {"%"})
              IN  ParseFloat(cleaned)

\* re.match(r'^(?:FY\s*)?(20\d{2})$', txt, re.I): the year, or None
YearOf(txt) ==
    LET rest == IF StartsWith(Lower(txt), "fy")
                THEN LStrip(SubSeq(txt, 3, Len(txt))) ELSE txt
    IN  IF Len(rest) = 4 /\ SubSeq(rest, 1, 2) = "20"
           /\ AllIn(SubSeq(rest, 3, 4), DigitSet)
        THEN rest ELSE None

parse_period_label(label) ==
    LET txt == Strip(IF label = None THEN "" ELSE label) IN
    IF txt = "" THEN None
    ELSE IF Lower(txt) = "current" THEN "Current"
    ELSE IF YearOf(txt) # None THEN "FY " \o YearOf(txt)
    ELSE txt

\* Position of the ")" that closes a "(" at position 1 for r'\(.*?\)':
\* the first ")" with no newline before it, or 0
ClosingAt(s) ==
    LET closers == {j \in 2..Len(s) :
                        /\ Char(s, j) = ")"
                        /\ \A k \in 2..(j - 1) : Char(s, k) \notin {")", "\n"}}
    IN  IF closers = {} THEN 0 ELSE CHOOSE j \in closers : TRUE

RECURSIVE RemoveParens(_)
\* re.sub(r'\(.*?\)', '', s)
RemoveParens(s) ==
    IF s = "" THEN ""
    ELSE IF Char(s, 1) = "(" /\ ClosingAt(s) > 0
         THEN RemoveParens(SubSeq(s, ClosingAt(s) + 1, Len(s)))
         ELSE Char(s, 1) \o RemoveParens(SubSeq(s, 2, Len(s)))

RECURSIVE KeepChars(_, _)
KeepChars(s, cs) ==
    IF s = "" THEN ""
    ELSE (IF Char(s, 1) \in cs THEN Char(s, 1) ELSE "")
             \o KeepChars(SubSeq(s, 2, Len(s)), cs)

LabelChars == CharsOf(LowerLetters) \cup DigitSet \cup {"/", "%", " "}

normalize_label(value) ==
    LET text0 == Lower(IF value = None THEN "" ELSE value)
        text1 == RemoveParens(text0)
        text2 == CollapseSpaces(text1)
        text3 == KeepChars(text2, LabelChars)
        text4 == IF EndsWith(text3, " ratio")
                 THEN SubSeq(text3, 1, Len(text3) - 6) ELSE text3
    IN  Strip(text4)

-----------------------------------------------------------------------------
(* The metric taxonomy                                                     *)

METRICS ==
    << [key |-> "marketCap", label |-> "Market Capitalization",
        aliases |-> <<"Market Capitalization">>, unit |-> "millions SGD"],
       [key |-> "netDebtToEbitda", label |-> "Net Debt / EBITDA Ratio",
        aliases |-> <<"Net Debt / EBITDA Ratio", "Net Debt / EBITDA">>, unit |-> None],
       [key |-> "debtToEquity", label |-> "Debt / Equity Ratio",
        aliases |-> <<"Debt / Equity Ratio", "Debt / Equity">>, unit |-> None],
       [key |-> "netDebtToEquity", label |-> "Net Debt / Equity Ratio",
        aliases |-> <<"Net Debt / Equity Ratio", "Net Debt / Equity">>, unit |-> None],
       [key |-> "debtToEbitda", label |-> "Debt / EBITDA Ratio",
        aliases |-> <<"Debt / EBITDA Ratio", "Debt / EBITDA">>, unit |-> None],
       [key |-> "quickRatio", label |-> "Quick Ratio",
        aliases |-> <<"Quick Ratio">>, unit |-> None],
       [key |-> "currentRatio", label |-> "Current Ratio",
        aliases |-> <<"Current Ratio">>, unit |-> None],
       [key |-> "roic", label |-> "ROIC",
        aliases |-> <<"ROIC", "Return on Invested Capital (ROIC)">>, unit |-> None],
       [key |-> "roe", label |-> "ROE",
        aliases |-> <<"ROE", "Return on Equity (ROE)">>, unit |-> None],
       [key |-> "payoutRatio", label |-> "Payout Ratio",
        aliases |-> <<"Payout Ratio">>, unit |-> None],
       [key |-> "assetTurnover", label |-> "Asset Turnover",
        aliases |-> <<"Asset Turnover", "Asset Turnover Ratio">>, unit |-> None] >>

MetricKeys == {METRICS[i].key : i \in 1..Len(METRICS)}

\* The (metric, alias) pairs in the order the dict comprehension visits them
AliasPairs ==
    UNION {{<<i, j>> : j \in 1..Len(METRICS[i].aliases)} : i \in 1..Len(METRICS)}

Later(a, b) == a[1] > b[1] \/ (a[1] = b[1] /\ a[2] > b[2])

\* ALIAS_LOOKUP: normalized alias -> key, the last registered alias wins
ALIAS_LOOKUP ==
    LET norm(pr) == normalize_label(METRICS[pr[1]].aliases[pr[2]])
        names    == {norm(pr) : pr \in AliasPairs}
    IN  [n \in names |->
            METRICS[(CHOOSE pr \in AliasPairs :
                        /\ norm(pr) = n
                        /\ \A q \in AliasPairs : norm(q) = n => ~Later(q, pr))[1]].key]

empty_metrics ==
    [k \in MetricKeys |->
        LET meta == METRICS[CHOOSE i \in 1..Len(METRICS) : METRICS[i].key = k] IN
        [label |-> meta.label, values |-> EmptyDict, rawValues |-> EmptyDict,
         unit |-> meta.unit]]

-----------------------------------------------------------------------------
(* parse_ratios_from_html                                                  *)

Min(S) == CHOOSE x \in S : \A y \in S : x <= y

Raise(type, msg) == [ok |-> FALSE, exc |-> type, msg |-> msg]
Return(value)    == [ok |-> TRUE, value |-> value]

\* Index of the header row of a table (rows are numbered from 1 here), or
\* 0 where the code has -1
HeaderIdx(table) ==
    LET byRatio == {i \in 1..Len(table) :
                        table[i] # <<>> /\ StartsWith(Lower(table[i][1]), "ratio")}
        byCurrent == {i \in 1..Len(table) :
                        \E c \in 1..Len(table[i]) : Contains(Lower(table[i][c]), "current")}
    IN  IF byRatio # {} THEN Min(byRatio)
        ELSE IF byCurrent # {} THEN Min(byCurrent)
        ELSE 0

Truthy(p) == p # None /\ p # ""

\* periods = [parse_period_label(x) for x in headers[1:]], empty ones dropped
PeriodsOf(headers) ==
    SelectSeq([i \in 1..(Len(headers) - 1) |-> parse_period_label(headers[i + 1])],
              Truthy)

\* row[i + 1] if i + 1 < len(row) else None, for the period numbered i from 1
CellFor(row, i) == IF i + 1 <= Len(row) THEN row[i + 1] ELSE None

RECURSIVE FillEnding(_, _, _, _)
FillEnding(period_ending, row, periods, i) ==
    IF i > Len(periods) THEN period_ending
    ELSE FillEnding(DictSet(period_ending, periods[i], CellFor(row, i)),
                    row, periods, i + 1)

RECURSIVE FillMetric(_, _, _, _)
FillMetric(m, row, periods, i) ==
    IF i > Len(periods) THEN m
    ELSE FillMetric([m EXCEPT !.rawValues = DictSet(@, periods[i], CellFor(row, i)),
                              !.values = DictSet(@, periods[i],
                                                 parse_numeric(CellFor(row, i)))],
                    row, periods, i + 1)

RECURSIVE ProcessRows(_, _, _)
\* The loop over table[header_idx + 1:]; acc holds period_ending and metrics
ProcessRows(acc, trows, periods) ==
    IF trows = <<>> THEN acc
    ELSE LET row == Head(trows)
             key == IF row = <<>> THEN None
                    ELSE DictGet(ALIAS_LOOKUP, normalize_label(row[1]))
         IN  IF row = <<>> THEN ProcessRows(acc, Tail(trows), periods)
             ELSE IF Lower(row[1]) = "period ending"
             THEN ProcessRows([acc EXCEPT !.period_ending =
                                   FillEnding(@, row, periods, 1)],
                              Tail(trows), periods)
             ELSE IF key = None THEN ProcessRows(acc, Tail(trows), periods)
             ELSE ProcessRows([acc EXCEPT !.metrics[key] =
                                   FillMetric(@, row, periods, 1)],
                              Tail(trows), periods)

\* The body of the loop once a table has a header and periods
BuildResult(table, header_idx, periods) ==
    LET acc == ProcessRows([period_ending |-> EmptyDict, metrics |-> empty_metrics],
                           SubSeq(table, header_idx + 1, Len(table)), periods)
    IN  [periods |-> [i \in 1..Len(periods) |->
                         [label |-> periods[i],
                          periodEnding |-> DictGet(acc.period_ending, periods[i])]],
         metrics |-> acc.metrics]

RECURSIVE ParseTables_NoPeriodCheck(_)
\* The loop without "if not periods: continue"
ParseTables_NoPeriodCheck(tables) ==
    IF tables = <<>>
    THEN Raise("ValueError", "Unable to locate StockAnalysis ratios table")
    ELSE LET table == Head(tables)
             header_idx == HeaderIdx(table)
         IN  IF header_idx = 0 THEN ParseTables_NoPeriodCheck(Tail(tables))
             ELSE Return(BuildResult(table, header_idx, PeriodsOf(table[header_idx])))

RECURSIVE ParseTables(_)
\* for table in parser.tables: ... ; raise ValueError
ParseTables(tables) ==
    IF tables = <<>>
    THEN Raise("ValueError", "Unable to locate StockAnalysis ratios table")
    ELSE LET table == Head(tables)
             header_idx == HeaderIdx(table)
         IN  IF header_idx = 0 THEN ParseTables(Tail(tables))
             ELSE IF PeriodsOf(table[header_idx]) = <<>> THEN ParseTables(Tail(tables))
             ELSE Return(BuildResult(table, header_idx, PeriodsOf(table[header_idx])))

parse_ratios_from_html(events) == ParseTables(TablesOf(Feed(events)))

-----------------------------------------------------------------------------
(* SpecSelect: parse_ratios_from_html on bounded documents                 *)

RECURSIVE Flatten(_)
Flatten(seqs) == IF seqs = <<>> THEN <<>> ELSE Head(seqs) \o Flatten(Tail(seqs))

\* The events of a well-formed cell, row, table and document
CellMarkup(cell) ==
    <<StartEv("td")>> \o (IF cell = "" THEN <<>> ELSE <<DataEv(cell)>>) \o <<EndEv("td")>>

RowMarkup(row) ==
    <<StartEv("tr")>> \o Flatten([c \in 1..Len(row) |-> CellMarkup(row[c])])
        \o <<EndEv("tr")>>

TableMarkup(table) ==
    <<StartEv("table")>> \o Flatten([r \in 1..Len(table) |-> RowMarkup(table[r])])
        \o <<EndEv("table")>>

Markup(tables) == Flatten([t \in 1..Len(tables) |-> TableMarkup(tables[t])])

SeqsUpTo(S, n) == UNION {[1..k -> S] : k \in 0..n}

\* Documents of several tables, drawn from fixed tables
SelTables ==
    { << <<"Name", "Price">>, <<"Quick Ratio", "1">> >>,
      << <<"Ratio", "">>, <<"Quick Ratio", "9">> >>,
      << <<"Ratio", "FY 2023">>, <<"Quick Ratio", "1.2">> >>,
      << <<"Ratios", "Current">>, <<"ROE", "3">> >>,
      << <<"Item", "Current">>, <<"Current Ratio", "2">> >>,
      << <<"Ratio">>, <<"x", "Current">>, <<"ROE", "4">> >> }

\* Documents of one table: a header row and one row below it
HeadCells   == {"Ratio", "Name"}
PeriodCells == {"", "2023", "FY 2023", "Current"}
RowHeads    == {"Quick Ratio", "Period Ending", "Foo"}
DataCells   == {"1.2", "3", "-"}

GenTables ==
    { << <<h>> \o ps, <<r>> \o cs >> :
        h \in HeadCells, ps \in SeqsUpTo(PeriodCells, MaxCols),
        r \in RowHeads, cs \in SeqsUpTo(DataCells, MaxCols) }

InputTables ==
    (SeqsUpTo(SelTables, MaxTables) \ {<<>>}) \cup {<<t>> : t \in GenTables} \cup {<<>>}

InitSelect ==
    /\ tablesIn \in InputTables
    /\ parseOut = NoneObj
    /\ pc = "select"
    /\ IdleParser /\ IdleFetch /\ IdleMain

Select ==
    /\ pc = "select"
    /\ parseOut' = parse_ratios_from_html(Markup(tablesIn))
    /\ pc' = "selected"
    /\ UNCHANGED <<tablesIn, parserVars, fetchVars, mainVars>>

NextSelect == Select

SpecSelect == InitSelect /\ [][NextSelect]_vars

\* A table qualifies when it has a header row and that row yields a label
Qualifies(table) ==
    /\ HeaderIdx(table) > 0
    /\ \E c \in 2..Len(table[HeaderIdx(table)]) :
           Truthy(parse_period_label(table[HeaderIdx(table)][c]))

Qualifying == {i \in 1..Len(tablesIn) : Qualifies(tablesIn[i])}

\* C8: the result is the one built from the first qualifying table alone:
\* it equals the result for the document holding only that table, and the
\* call raises "no ratios table" exactly when no table qualifies.
C8_FirstQualifyingTable ==
    pc = "selected" =>
        /\ ~parseOut.ok <=> Qualifying = {}
        /\ ~parseOut.ok =>
               parseOut = Raise("ValueError", "Unable to locate StockAnalysis ratios table")
        /\ parseOut.ok =>
               /\ parseOut = parse_ratios_from_html(Markup(<<tablesIn[Min(Qualifying)]>>))
               /\ parseOut.value.periods # <<>>

\* A document whose first table does not qualify and whose later tables do
C8_Witness ==
    /\ pc = "selected"
    /\ parseOut.ok
    /\ Len(tablesIn) = 3
    /\ Min(Qualifying) = 2
    /\ 3 \in Qualifying

\* The table the result was built from, its header and its labels
UsedTable == tablesIn[Min(Qualifying)]
UsedHeader == UsedTable[HeaderIdx(UsedTable)]
Labels == [i \in 1..Len(parseOut.value.periods) |-> parseOut.value.periods[i].label]

\* Rows below the header that resolve to a metric, the last one per metric
ResolvedRows ==
    {r \in (HeaderIdx(UsedTable) + 1)..Len(UsedTable) :
        /\ Lower(UsedTable[r][1]) # "period ending"
        /\ DictGet(ALIAS_LOOKUP, normalize_label(UsedTable[r][1])) # None
        /\ \A r2 \in (r + 1)..Len(UsedTable) :
               normalize_label(UsedTable[r2][1]) # normalize_label(UsedTable[r][1])}

\* C6: the period labels of a result are pairwise distinct, and the cell at
\* column c of a resolved metric row is recorded under the label derived
\* from the header cell at column c.
C6_LabelsDistinctAndAligned ==
    (pc = "selected" /\ parseOut.ok) =>
        /\ \A i, j \in 1..Len(Labels) : i # j => Labels[i] # Labels[j]
        /\ \A r \in ResolvedRows :
               \A c \in 2..Len(UsedTable[r]) :
                   (c <= Len(UsedHeader) /\ Truthy(parse_period_label(UsedHeader[c]))) =>
                       DictGet(parseOut.value.metrics[
                                   ALIAS_LOOKUP[normalize_label(UsedTable[r][1])]].rawValues,
                               parse_period_label(UsedHeader[c])) = UsedTable[r][c]

-----------------------------------------------------------------------------
(* fetch_html                                                              *)

DefaultRetries == 3

\* The documents a successful attempt can return (their markup is Tokens)
Documents == {"full", "nulls", "partial", "headerOnly", "noTable"}

\* The classes the except clause names
Retryable == {"HTTPError", "URLError", "TimeoutError"}

\* What urlopen / read can raise: three retryable failures, one that is not
Failures ==
    { [exc |-> "HTTPError", msg |-> "HTTP Error 503: Service Unavailable"],
      [exc |-> "URLError", msg |-> "<urlopen error [Errno 111] Connection refused>"],
      [exc |-> "TimeoutError", msg |-> "timed out"],
      [exc |-> "IncompleteRead", msg |-> "IncompleteRead(0 bytes read)"] }

Success == [ok |-> TRUE]   \* the outcome of an attempt that did not raise

Urlopen(outcome) == [op |-> "urlopen", outcome |-> outcome]
Sleep(ms)        == [op |-> "sleep", ms |-> ms]

\* 0.5 * (2 ** (attempt - 1)) seconds, in milliseconds
SleepMs_Doubled(a) == 500 * 2^a

SleepMs(a) == 500 * 2^(a - 1)

\* if attempt < retries
ShouldSleep(a, n) == a < n

\* Entry of fetch_html(url, retries): last_err = None, first loop value
FetchEnter(n) ==
    /\ retries' = n
    /\ attempt' = 1
    /\ last_err' = NoneObj
    /\ calls' = <<>>
    /\ fetchRes' = NoneObj

\* An attempt succeeds: return resp.read().decode(...)
AttemptOk ==
    /\ pc = "fetch" /\ attempt <= retries
    /\ \E doc \in Documents :
        /\ calls' = Append(calls, Urlopen(Success))
        /\ fetchRes' = Return(doc)
    /\ pc' = "fetched"
    /\ UNCHANGED <<retries, attempt, last_err>>

\* An attempt raises one of the classes of the except clause
AttemptRetryable ==
    /\ pc = "fetch" /\ attempt <= retries
    /\ \E f \in Failures :
        /\ f.exc \in Retryable
        /\ last_err' = f
        /\ calls' = IF ShouldSleep(attempt, retries)
                    THEN calls \o <<Urlopen(f), Sleep(SleepMs(attempt))>>
                    ELSE Append(calls, Urlopen(f))
    /\ attempt' = attempt + 1
    /\ UNCHANGED <<retries, fetchRes, pc>>

\* The same with the failure handled like one of the except clause's
\* classes: recorded, waited after, and followed by the next attempt
AttemptFatal_Retried ==
    /\ pc = "fetch" /\ attempt <= retries
    /\ \E f \in Failures :
        /\ f.exc \notin Retryable
        /\ last_err' = f
        /\ calls' = IF ShouldSleep(attempt, retries)
                    THEN calls \o <<Urlopen(f), Sleep(SleepMs(attempt))>>
                    ELSE Append(calls, Urlopen(f))
    /\ attempt' = attempt + 1
    /\ UNCHANGED <<retries, fetchRes, pc>>

\* An attempt raises anything else: it leaves fetch_html at once
AttemptFatal ==
    /\ pc = "fetch" /\ attempt <= retries
    /\ \E f \in Failures :
        /\ f.exc \notin Retryable
        /\ calls' = Append(calls, Urlopen(f))
        /\ fetchRes' = Raise(f.exc, f.msg)
    /\ pc' = "fetched"
    /\ UNCHANGED <<retries, attempt, last_err>>

\* The loop is over: raise last_err (None when the loop never ran)
FetchExhausted ==
    /\ pc = "fetch" /\ attempt > retries
    /\ fetchRes' = IF last_err = NoneObj
                   THEN Raise("TypeError", "exceptions must derive from BaseException")
                   ELSE Raise(last_err.exc, last_err.msg)
    /\ pc' = "fetched"
    /\ UNCHANGED <<retries, attempt, last_err, calls>>

-----------------------------------------------------------------------------
(* SpecFetch: one call of fetch_html                                       *)

InitFetch ==
    /\ retries \in 0..MaxRetries
    /\ attempt = 1
    /\ last_err = NoneObj
    /\ calls = <<>>
    /\ fetchRes = NoneObj
    /\ pc = "fetch"
    /\ IdleParser /\ IdleSelect /\ IdleMain

NextFetch ==
    \/ AttemptOk /\ UNCHANGED <<parserVars, selectVars, mainVars>>
    \/ AttemptRetryable /\ UNCHANGED <<parserVars, selectVars, mainVars>>
    \/ AttemptFatal /\ UNCHANGED <<parserVars, selectVars, mainVars>>
    \/ FetchExhausted /\ UNCHANGED <<parserVars, selectVars, mainVars>>

SpecFetch == InitFetch /\ [][NextFetch]_vars

\* The urlopen calls of the log, in order, and the failures among them
IsUrlopen(c) == c.op = "urlopen"
UrlopenCalls == SelectSeq(calls, IsUrlopen)
IsFailed(c) == c.op = "urlopen" /\ c.outcome # Success
FailedCalls == SelectSeq(calls, IsFailed)

AllRetryable == \A i \in 1..Len(FailedCalls) : FailedCalls[i].outcome.exc \in Retryable

\* The log the claim describes for k failed attempts out of n, then success or not
RECURSIVE ExpectedCalls(_, _, _, _)
ExpectedCalls(failed, k, n, succeeded) ==
    IF k > Len(failed)
    THEN (IF succeeded THEN <<Urlopen(Success)>> ELSE <<>>)
    ELSE <<failed[k]>>
            \o (IF k < n THEN <<[op |-> "sleep", ms |-> 500 * 2^(k - 1)]>> ELSE <<>>)
            \o ExpectedCalls(failed, k + 1, n, succeeded)

\* C5: with retries = N >= 1 and only retryable failures, fetch_html makes
\* at most N attempts, none after a success, sleeps 0.5 * 2^(k-1) s after
\* the failed attempt k < N and not after the N-th, and when all N attempts
\* fail it raises the failure of the N-th attempt.
C5_RetryAndBackoff ==
    (retries >= 1 /\ AllRetryable /\ pc \in {"fetch", "fetched"}) =>
        /\ Len(UrlopenCalls) <= retries
        /\ calls = ExpectedCalls(FailedCalls, 1, retries,
                                 fetchRes # NoneObj /\ fetchRes.ok)
        /\ pc = "fetched" =>
               \/ fetchRes.ok
               \/ /\ Len(FailedCalls) = retries
                  /\ fetchRes = Raise(FailedCalls[retries].outcome.exc,
                                      FailedCalls[retries].outcome.msg)

\* Three attempts failed with different retryable failures and the last
\* one was raised after sleeps of 0.5 s and 1 s
C5_Witness ==
    /\ pc = "fetched" /\ retries = 3 /\ ~fetchRes.ok
    /\ Len(calls) = 5
    /\ calls[2] = Sleep(500) /\ calls[4] = Sleep(1000)
    /\ calls[1].outcome.exc = "HTTPError"
    /\ calls[5].outcome.exc = "TimeoutError"
    /\ fetchRes.exc = "TimeoutError"

-----------------------------------------------------------------------------
(* main                                                                    *)

\* The roster rows: one with every column, one with neither the symbol
\* column nor a URL
RosterRows ==
    { [stockanalysis_symbol |-> "9ci", sgx_ticker |-> "C31",
       company_name |-> "CapitaLand Investment",
       stockanalysis_ratios_url |-> " https://stockanalysis.com/quote/sgx/9CI/ "],
      [stockanalysis_symbol |-> None, sgx_ticker |-> " u14 ",
       company_name |-> "UOL Group",
       stockanalysis_ratios_url |-> None] }

Rosters == SeqsUpTo(RosterRows, MaxRoster)

\* a or b
Or(a, b) == IF Truthy(a) THEN a ELSE b

TickerOf(row) == Upper(Strip(Or(Or(row.stockanalysis_symbol, row.sgx_ticker), "")))

UrlOf(row) == Strip(Or(row.stockanalysis_ratios_url, ""))

\* The record main() creates for a row (the timestamp is left out)
NewRecord(row) ==
    [ticker |-> TickerOf(row),
     name |-> row.company_name,
     stockanalysis_ratios_url |-> UrlOf(row),
     periods |-> <<>>,
     metrics |-> empty_metrics,
     fetchStatus |-> "error",
     fetchError |-> None]

\* except Exception as exc
Except(rec, exc) == [rec EXCEPT !.fetchStatus = "error", !.fetchError = exc.msg]

\* sum(1 for m in parsed['metrics'].values() if m['values'])
Captured(metrics) == Cardinality({k \in DOMAIN metrics : metrics[k].values # EmptyDict})

DiskFull == Raise("OSError", "[Errno 28] No space left on device")

\* The markup of the documents
RatiosHeader == <<"Ratio", "FY 2023", "Current">>

MetricRows(cells) ==
    [i \in 1..Len(METRICS) |->
        <<METRICS[i].aliases[Len(METRICS[i].aliases)]>> \o cells]

NavTable == << <<"Name", "Price">>, <<"9CI", "2.61">> >>

Tokens(doc) ==
    CASE doc = "full" ->
            Markup(<< NavTable,
                      << RatiosHeader,
                         <<"Period Ending", "Dec 31, 2023", "Jun 30, 2024">> >>
                          \o MetricRows(<<"1,234.5", "45%">>) >>)
      [] doc = "nulls" ->
            Markup(<< <<RatiosHeader>> \o MetricRows(<<"-", "n/a">>) >>)
      [] doc = "partial" ->
            Markup(<< << RatiosHeader,
                         <<"Quick Ratio", "1.2", "-">>,
                         <<"ROE", "abc", "3">>,
                         <<"Payout Ratio", "-", "-">>,
                         <<"Beta", "1", "2">> >> >>)
      [] doc = "headerOnly" ->
            Markup(<< << RatiosHeader, <<"Beta", "1", "2">> >> >>)
      [] OTHER ->
            <<StartEv("p"), DataEv("Page "), DataEv("not found"), EndEv("p")>>
                \o Markup(<<NavTable>>)

\* parse_ratios_from_html(html) for each document (evaluated once)
ParseOf == [doc \in Documents |-> parse_ratios_from_html(Tokens(doc))]

\* The locals of a finished fetch_html call are gone
FetchLeave ==
    /\ retries' = 0 /\ attempt' = 0 /\ last_err' = NoneObj
    /\ calls' = <<>> /\ fetchRes' = NoneObj

\* Loop head and try block up to the URL test, the URL missing
RowNoUrl ==
    /\ pc = "row"
    /\ UrlOf(rows[idx]) = ""
    /\ record' = Except(NewRecord(rows[idx]),
                        Raise("ValueError", "Missing stockanalysis_ratios_url"))
    /\ pc' = "append"
    /\ UNCHANGED <<rows, idx, html, parsed, out, files, fetchVars>>

\* Loop head and try block up to the call of fetch_html(url)
RowFetch ==
    /\ pc = "row"
    /\ UrlOf(rows[idx]) # ""
    /\ record' = NewRecord(rows[idx])
    /\ FetchEnter(DefaultRetries)
    /\ pc' = "fetch"
    /\ UNCHANGED <<rows, idx, html, parsed, out, files>>

\* The same with an except clause that does not cover the failure: it
\* leaves main()
FetchRaised_Uncaught ==
    /\ pc = "fetched" /\ ~fetchRes.ok
    /\ pc' = "aborted"
    /\ FetchLeave
    /\ UNCHANGED <<rows, idx, record, html, parsed, out, files>>

\* fetch_html raised: the except block
FetchRaised ==
    /\ pc = "fetched" /\ ~fetchRes.ok
    /\ record' = Except(record, fetchRes)
    /\ pc' = "append"
    /\ FetchLeave
    /\ UNCHANGED <<rows, idx, html, parsed, out, files>>

\* html = fetch_html(url); write_text of the .html cache file succeeds
WriteHtml ==
    /\ pc = "fetched" /\ fetchRes.ok
    /\ html' = fetchRes.value
    /\ files' = Append(files, [kind |-> "html", ticker |-> record.ticker, row |-> idx])
    /\ pc' = "parse"
    /\ FetchLeave
    /\ UNCHANGED <<rows, idx, record, parsed, out>>

\* html = fetch_html(url); write_text of the .html cache file raises
WriteHtmlFails ==
    /\ pc = "fetched" /\ fetchRes.ok
    /\ html' = fetchRes.value
    /\ record' = Except(record, DiskFull)
    /\ pc' = "append"
    /\ FetchLeave
    /\ UNCHANGED <<rows, idx, parsed, out, files>>

\* parse_ratios_from_html raised: the except block
ParseRaised ==
    /\ pc = "parse"
    /\ ~ParseOf[html].ok
    /\ record' = Except(record, ParseOf[html])
    /\ pc' = "append"
    /\ UNCHANGED <<rows, idx, html, parsed, out, files, fetchVars>>

\* parsed = parse_ratios_from_html(html) and the four statements after it
ParseOk ==
    /\ pc = "parse"
    /\ ParseOf[html].ok
    /\ LET res == ParseOf[html].value IN
        /\ parsed' = res
        /\ record' = [record EXCEPT
                        !.periods = res.periods,
                        !.metrics = res.metrics,
                        !.fetchStatus = IF Captured(res.metrics) = Len(METRICS)
                                        THEN "ok" ELSE "partial"]
    /\ pc' = "write_json"
    /\ UNCHANGED <<rows, idx, html, out, files, fetchVars>>

\* write_text of the .json cache file succeeds (the prints follow)
WriteJson ==
    /\ pc = "write_json"
    /\ files' = Append(files, [kind |-> "json", ticker |-> record.ticker, row |-> idx])
    /\ pc' = "append"
    /\ UNCHANGED <<rows, idx, record, html, parsed, out, fetchVars>>

\* write_text of the .json cache file raises: the except block
WriteJsonFails ==
    /\ pc = "write_json"
    /\ record' = Except(record, DiskFull)
    /\ pc' = "append"
    /\ UNCHANGED <<rows, idx, html, parsed, out, files, fetchVars>>

\* The same with the aggregate output written in the loop
AppendRecord_WriteEach ==
    /\ pc = "append"
    /\ out' = Append(out, record)
    /\ files' = Append(files, [kind |-> "output", developers |-> Append(out, record)])
    /\ IF idx < Len(rows)
       THEN idx' = idx + 1 /\ pc' = "row"
       ELSE idx' = idx /\ pc' = "write_output"
    /\ record' = NoneObj /\ html' = None /\ parsed' = NoneObj
    /\ UNCHANGED <<rows, fetchVars>>

\* out['developers'].append(record) and the step of the loop; record, html
\* and parsed are not read again before they are assigned
AppendRecord ==
    /\ pc = "append"
    /\ out' = Append(out, record)
    /\ IF idx < Len(rows)
       THEN idx' = idx + 1 /\ pc' = "row"
       ELSE idx' = idx /\ pc' = "write_output"
    /\ record' = NoneObj /\ html' = None /\ parsed' = NoneObj
    /\ UNCHANGED <<rows, files, fetchVars>>

\* OUTPUT_JSON.write_text(json.dumps(out))
WriteOutput ==
    /\ pc = "write_output"
    /\ files' = Append(files, [kind |-> "output", developers |-> out])
    /\ pc' = "done"
    /\ UNCHANGED <<rows, idx, record, html, parsed, out, fetchVars>>

Init ==
    /\ rows \in Rosters
    /\ idx = 1
    /\ pc = IF rows = <<>> THEN "write_output" ELSE "row"
    /\ record = NoneObj /\ html = None /\ parsed = NoneObj
    /\ out = <<>> /\ files = <<>>
    /\ IdleParser /\ IdleSelect /\ IdleFetch

Next ==
    \/ RowNoUrl /\ UNCHANGED <<parserVars, selectVars>>
    \/ RowFetch /\ UNCHANGED <<parserVars, selectVars>>
    \/ AttemptOk /\ UNCHANGED <<parserVars, selectVars, mainVars>>
    \/ AttemptRetryable /\ UNCHANGED <<parserVars, selectVars, mainVars>>
    \/ AttemptFatal /\ UNCHANGED <<parserVars, selectVars, mainVars>>
    \/ FetchExhausted /\ UNCHANGED <<parserVars, selectVars, mainVars>>
    \/ FetchRaised /\ UNCHANGED <<parserVars, selectVars>>
    \/ WriteHtml /\ UNCHANGED <<parserVars, selectVars>>
    \/ WriteHtmlFails /\ UNCHANGED <<parserVars, selectVars>>
    \/ ParseRaised /\ UNCHANGED <<parserVars, selectVars>>
    \/ ParseOk /\ UNCHANGED <<parserVars, selectVars>>
    \/ WriteJson /\ UNCHANGED <<parserVars, selectVars>>
    \/ WriteJsonFails /\ UNCHANGED <<parserVars, selectVars>>
    \/ AppendRecord /\ UNCHANGED <<parserVars, selectVars>>
    \/ WriteOutput /\ UNCHANGED <<parserVars, selectVars>>

Spec == Init /\ [][Next]_vars

\* The interpreter keeps running the script until it ends
FairSpec == Spec /\ WF_vars(Next)

-----------------------------------------------------------------------------
(* Claims about main                                                       *)

\* The records main() has produced: those appended, and the record of the
\* current row once the try block has classified it
Produced ==
    {out[i] : i \in 1..Len(out)}
        \cup (IF pc \in {"write_json", "append"} THEN {record} ELSE {})

\* Metrics of a record with a period whose parsed value is not None
WithValue(rec) ==
    {k \in MetricKeys :
        \E p \in DOMAIN rec.metrics[k].values : rec.metrics[k].values[p] # None}

\* Rows done with: all of them once the loop is over
RowsDone == IF pc \in {"write_output", "done"} THEN Len(rows) ELSE idx - 1

OutputWrites == {i \in 1..Len(files) : files[i].kind = "output"}

\* record i of the output stems from roster row i
FromRow(rec, row) ==
    /\ rec.ticker = TickerOf(row)
    /\ rec.name = row.company_name
    /\ rec.stockanalysis_ratios_url = UrlOf(row)

\* C1: main() takes the rows one at a time in roster order, appends exactly
\* one record per row in that order whatever fails in a row, and always
\* reaches the final write of the output document, which holds one record
\* per roster row.
C1_OneRecordPerRow ==
    /\ [](/\ Len(out) = RowsDone
          /\ \A i \in 1..Len(out) : FromRow(out[i], rows[i]))
    /\ [][/\ idx' \in {idx, idx + 1}
          /\ Len(out') \in {Len(out), Len(out) + 1}
          /\ \A i \in 1..Len(out) : out'[i] = out[i]]_vars
    /\ <>(pc = "done")
    /\ [](pc = "done" =>
            /\ Len(out) = Len(rows)
            /\ files[Len(files)] = [kind |-> "output", developers |-> out])

\* The run of the roster of three rows whose second row has no URL, with a
\* failed fetch in the first row and a parse failure in the third
C1_Witness ==
    /\ pc = "done"
    /\ Len(rows) = 3 /\ Len(out) = 3
    /\ out[1].fetchError = "timed out"
    /\ out[2].fetchError = "Missing stockanalysis_ratios_url"
    /\ out[3].fetchError = "Unable to locate StockAnalysis ratios table"

\* C2: a record has fetchStatus 'ok' exactly when every metric of the
\* taxonomy has a period with a non-null parsed value in it.
C2_OkIffAllMetricsHaveValue ==
    \A rec \in Produced :
        rec.fetchStatus = "ok" <=> WithValue(rec) = MetricKeys

\* C3: a record has fetchStatus 'partial' exactly when fetch and parse
\* succeeded and some but not all metrics have a non-null parsed value.
C3_PartialIffSomeNotAll ==
    \A rec \in Produced :
        rec.fetchStatus = "partial" <=>
            /\ rec.periods # <<>>
            /\ WithValue(rec) # {}
            /\ WithValue(rec) # MetricKeys

\* C4: a record with fetchStatus 'error' has no periods, the empty metrics
\* (every key, no values) and the failure's message in fetchError.
C4_ErrorRecordIsEmpty ==
    \A i \in 1..Len(out) :
        out[i].fetchStatus = "error" =>
            /\ out[i].periods = <<>>
            /\ out[i].metrics = empty_metrics
            /\ out[i].fetchError # None

\* The cache files written for row i, in order
IsCacheOf(i, f) == f.kind \in {"html", "json"} /\ f.row = i
CacheKinds(i) ==
    LET own == {n \in 1..Len(files) : IsCacheOf(i, files[n])}
        nth(k) == CHOOSE n \in own : Cardinality({m \in own : m < n}) = k - 1
    IN  [k \in 1..Cardinality(own) |-> files[nth(k)].kind]

FetchMessages ==
    {f.msg : f \in Failures} \cup {"exceptions must derive from BaseException"}

\* C9: the aggregate output is written once, as the last write and after
\* every row is done; the .html cache file of a row is written before its
\* parse starts and so exists when the parse fails; the .json cache file
\* is written only after a successful parse; a row with no URL or a failed
\* fetch writes no cache file.
C9_WriteOrder ==
    /\ Cardinality(OutputWrites) = (IF pc = "done" THEN 1 ELSE 0)
    /\ \A n \in OutputWrites :
           /\ n = Len(files)
           /\ Len(files[n].developers) = Len(rows)
    /\ pc \in {"row", "fetch", "fetched"} => CacheKinds(idx) = <<>>
    /\ pc \in {"parse", "write_json"} => CacheKinds(idx) = <<"html">>
    /\ \A i \in 1..Len(out) :
           /\ CacheKinds(i) \in {<<>>, <<"html">>, <<"html", "json">>}
           /\ CacheKinds(i) = <<"html", "json">> <=> out[i].fetchStatus # "error"
           /\ out[i].fetchError = "Unable to locate StockAnalysis ratios table"
                  => CacheKinds(i) = <<"html">>
           /\ out[i].fetchError \in FetchMessages \cup {"Missing stockanalysis_ratios_url"}
                  => CacheKinds(i) = <<>>

\* A finished run with a row of each kind: both cache files, the .html file
\* alone after a failed parse, and no file after a failed fetch
C9_Witness ==
    /\ pc = "done"
    /\ Len(out) = 3
    /\ CacheKinds(1) = <<"html", "json">>
    /\ CacheKinds(2) = <<"html">>
    /\ out[2].fetchError = "Unable to locate StockAnalysis ratios table"
    /\ CacheKinds(3) = <<>>
    /\ out[3].fetchError \in FetchMessages

-----------------------------------------------------------------------------
(* Claims about failures fetch_html does not retry                         *)

\* The failures outside the classes of the except clause
NonRetryable == {f \in Failures : f.exc \notin Retryable}

\* fetch_html has raised such a failure
FatalRaised(res) ==
    /\ res # NoneObj
    /\ ~res.ok
    /\ \E f \in NonRetryable : res = Raise(f.exc, f.msg)

\* This step is an attempt of fetch_html on which such a failure is raised
FatalAttempt ==
    /\ pc = "fetch"
    /\ Len(calls') > Len(calls)
    /\ calls'[Len(calls) + 1].outcome \in NonRetryable

\* C11: a failure outside the retryable classes raised on attempt k leaves
\* fetch_html at once, with no wait after it and no attempt k + 1 whatever
\* is left of the budget, and main() turns it into an 'error' record of
\* that row alone: the records before it stay and the loop goes on.
C11_FatalNotRetried ==
    /\ [][FatalAttempt =>
            /\ calls' = Append(calls, calls'[Len(calls) + 1])
            /\ attempt' = attempt
            /\ pc' = "fetched"
            /\ FatalRaised(fetchRes')
            /\ fetchRes'.msg = calls'[Len(calls')].outcome.msg]_vars
    /\ []((pc = "fetched" /\ FatalRaised(fetchRes)) =>
            /\ attempt <= retries
            /\ Len(UrlopenCalls) = attempt
            /\ IsUrlopen(calls[Len(calls)])
            /\ \A i \in 1..(Len(calls) - 1) :
                   IsUrlopen(calls[i]) => calls[i].outcome.exc \in Retryable)
    /\ [][(pc = "fetched" /\ FatalRaised(fetchRes)) =>
            /\ pc' = "append"
            /\ record' = [record EXCEPT !.fetchStatus = "error",
                                        !.fetchError = fetchRes.msg]
            /\ record'.periods = <<>>
            /\ record'.metrics = empty_metrics
            /\ FromRow(record', rows[idx])
            /\ out' = out /\ idx' = idx /\ files' = files]_vars
    /\ [][(pc = "append" /\ record.fetchError \in {f.msg : f \in NonRetryable}) =>
            /\ out' = Append(out, record)
            /\ pc' = IF idx < Len(rows) THEN "row" ELSE "write_output"]_vars

\* The second row's fetch raised a failure that is not retried on its
\* second attempt, one attempt still left, after the first row ended as an
\* 'error' record for a failure of the same kind
C11_Witness ==
    /\ pc = "fetched" /\ idx = 2
    /\ FatalRaised(fetchRes)
    /\ attempt = 2 /\ retries = 3
    /\ Len(calls) = 3
    /\ calls[2] = Sleep(500)
    /\ Len(out) = 1
    /\ out[1].fetchStatus = "error"
    /\ out[1].fetchError \in {f.msg : f \in NonRetryable}

====
